---- MODULE Spec2Model ----
(***************************************************************************)
(* A model of dashhboard.py: the attendance dashboard.                     *)
(*                                                                         *)
(* Two execution contexts share st.session_state:                          *)
(*   - the render context, which runs the script (main) once per render    *)
(*     cycle, and                                                          *)
(*   - the MQTT listener thread started by client.loop_start(), which      *)
(*     runs on_connect / on_disconnect / on_message.                       *)
(* The render context is modelled statement group by statement group (rpc),*)
(* the listener callback by callback; on_connect takes two steps because   *)
(* it writes the connection flag before it subscribes.                     *)
(***************************************************************************)
EXTENDS Integers, Sequences, FiniteSets, TLC

(***************************************************************************)
(* Program constants.                                                      *)
(***************************************************************************)
\* deque(maxlen=50)
maxlen == 50
\* @st.cache_data(ttl=5)
ttl == 5

(***************************************************************************)
(* Bounds of the model.                                                    *)
(***************************************************************************)
\* messages delivered to on_message in the full model
MaxLiveMsgs == 2
\* messages delivered to on_message in the buffer model
MaxMsgs == 52
\* messages of the buffer model that differ from the default payload
MaxVariants == 2
\* connection attempts (mqtt.Client constructions) per session
MaxAttempts == 2
\* data rows an external writer appends to Attendance.csv in the full model
MaxLiveRows == 1
\* data rows of a file in the loader model
MaxRows == 2

VARIABLES
    \* st.session_state
    mqtt_connected,     \* BOOLEAN
    mqtt_messages,      \* the deque, leftmost (newest) element first
    last_update,        \* instant of the last successful on_message, counted
                        \* in such instants
    mqtt_client,        \* 0 for None, else the number of the stored client
    \* the deque's mutation counter (CPython: deque->state)
    deque_state,
    \* the MQTT client library and the broker
    clients_created,    \* mqtt.Client(...) constructions so far
    listeners_started,  \* client.loop_start() calls so far
    connect_failed,     \* the except branch of setup_mqtt has been taken
    subscribed,         \* client.subscribe(MQTT_TOPIC) issued on this connection
    lpc,                \* the listener thread's position
    history,            \* every value on_message has pushed, oldest first
    \* Attendance.csv and the st.cache_data entry of load_attendance_csv
    file,               \* [exists, rows]
    cache,              \* [valid, value, age]: age in seconds, ttl for "ttl or more"
    load_kind,          \* what this run's load_attendance_csv call did
    load_age,           \* age of the cache entry at that call, -1 if none
    refresh_pending,    \* the cache was cleared by the button, no load since
    \* the render context
    rpc,                \* position in the script
    button,             \* st.button returns True in this run
    auto_refresh,       \* the checkbox
    df,                 \* the loaded records of this run
    it,                 \* the deque iterator of the Live MQTT tab
    shown,              \* the messages rendered by this run's iteration
    snapshot,           \* the deque as it was when the iteration began
    render_error,       \* the exception that ended a run, "none" if none
    \* the history tab and the export
    filtered_df,
    csv_data,           \* the exported file
    reloaded            \* the exported file loaded again

vars == << mqtt_connected, mqtt_messages, last_update, mqtt_client, deque_state,
           clients_created, listeners_started, connect_failed, subscribed, lpc,
           history, file, cache, load_kind, load_age, refresh_pending,
           rpc, button, auto_refresh, df, it, shown, snapshot, render_error,
           filtered_df, csv_data, reloaded >>

session_vars == << mqtt_connected, mqtt_messages, last_update, mqtt_client, deque_state >>
client_vars == << clients_created, listeners_started, connect_failed, subscribed, lpc, history >>
store_vars == << file, cache, load_kind, load_age, refresh_pending >>
render_vars == << rpc, button, auto_refresh, df, it, shown, snapshot, render_error >>
export_vars == << filtered_df, csv_data, reloaded >>

(***************************************************************************)
(* Sequences.                                                              *)
(***************************************************************************)
Min(a, b) == IF a < b THEN a ELSE b

Reverse(s) == [i \in 1..Len(s) |-> s[Len(s) + 1 - i]]

\* the last n elements of s
LastN(s, n) == SubSeq(s, Len(s) - n + 1, Len(s))

RECURSIVE SelectRows(_, _)
SelectRows(s, keep) ==
    IF s = << >> THEN << >>
    ELSE IF keep[1] THEN << Head(s) >> \o SelectRows(Tail(s), Tail(keep))
         ELSE SelectRows(Tail(s), Tail(keep))

(***************************************************************************)
(* collections.deque, as CPython implements it.                            *)
(***************************************************************************)
\* a faulty variant: a full deque drops its newest element instead of its oldest
appendleft_keeps_oldest(d, x) ==
    IF Len(d) >= maxlen THEN << x >> \o SubSeq(d, 2, Len(d)) ELSE << x >> \o d

\* deque.appendleft(x) on a deque(maxlen=maxlen): x becomes the leftmost
\* element, and a deque that was full loses its rightmost one
appendleft(d, x) ==
    IF Len(d) >= maxlen THEN << x >> \o SubSeq(d, 1, maxlen - 1) ELSE << x >> \o d

\* iter(deque): the iterator remembers the deque's mutation counter and how
\* many elements are left to yield
deque_iter(d, state) == [index |-> 1, counter |-> Len(d), state |-> state]

\* next(iterator): "deque mutated during iteration" when the counter moved
deque_next(i, d, state) ==
    IF i.state # state THEN [raise |-> "RuntimeError", stop |-> FALSE, index |-> 0]
    ELSE IF i.counter = 0 THEN [raise |-> "none", stop |-> TRUE, index |-> 0]
    ELSE [raise |-> "none", stop |-> FALSE, index |-> i.index]

(***************************************************************************)
(* MQTT payloads. A payload is what msg.payload holds:                     *)
(*   kind   "bad_utf8"  bytes that payload.decode() rejects                *)
(*          "bad_json"  text that json.loads rejects                       *)
(*          "number"    a JSON number, true, false or null                 *)
(*          "string"    a JSON string                                      *)
(*          "array"     a JSON array                                       *)
(*          "object"    a JSON object (a key/value mapping)                *)
(*   has_ra whether 'received_at' in data is true of the decoded value:    *)
(*          a key of the object, an element of the array, a substring of   *)
(*          the string                                                     *)
(*   name   tells two payloads of one kind apart                           *)
(***************************************************************************)
Payload(k, r, n) == [kind |-> k, has_ra |-> r, name |-> n]

Objects ==
    { Payload("object", FALSE, "a"), Payload("object", FALSE, "b"),
      Payload("object", TRUE, "a") }

Malformed ==
    { Payload("bad_utf8", FALSE, "-"), Payload("bad_json", FALSE, "-") }

NonObjects ==
    { Payload("number", FALSE, "-"),
      Payload("string", FALSE, "-"), Payload("string", TRUE, "-"),
      Payload("array", FALSE, "-"), Payload("array", TRUE, "-") }

Payloads == Objects \cup Malformed \cup NonObjects

\* the default payload of the buffer model, and the ones that differ from it
DefaultPayload == Payload("object", FALSE, "a")
BufPayloads == { DefaultPayload, Payload("object", FALSE, "b"), Payload("bad_json", FALSE, "-") }

\* line 55-56: payload.decode() and json.loads(payload) both return
decodes(p) == p.kind \notin {"bad_utf8", "bad_json"}

\* line 59: 'received_at' not in data  raises TypeError on a number
membership_raises(p) == p.kind = "number"

\* line 60: data['received_at'] = ...  raises TypeError unless data is a dict
setitem_raises(p) == p.kind # "object"

\* whether on_message reaches line 63 with this payload
reaches_append(p) ==
    /\ decodes(p)
    /\ ~membership_raises(p)
    /\ (p.has_ra \/ ~setitem_raises(p))

\* the value on_message pushes: the decoded data, with a received_at of the
\* receiver's clock when the sender gave none
stamped(p) ==
    [kind |-> p.kind, name |-> p.name,
     received_at |-> IF p.has_ra THEN "sender" ELSE "receiver"]

\* line 260: msg.get(...) exists only on a dict
get_raises(m) == m.kind # "object"

(***************************************************************************)
(* The listener thread: the callbacks of lines 40-69.                      *)
(***************************************************************************)
\* the thread that runs the callbacks exists once loop_start() was called
listener_running == listeners_started > 0

\* a faulty variant: the result code is not looked at
on_connect_any_rc(rc) ==
    /\ listener_running
    /\ lpc = "idle"
    /\ mqtt_connected' = TRUE
    /\ lpc' = IF rc = 0 THEN "subscribe" ELSE "idle"
    /\ subscribed' = FALSE
    /\ UNCHANGED << mqtt_messages, last_update, mqtt_client, deque_state,
                    clients_created, listeners_started, connect_failed, history,
                    store_vars, render_vars, export_vars >>

\* on_connect, line 41-42 and 46: the flag is written first
on_connect(rc) ==
    /\ listener_running
    /\ lpc = "idle"
    /\ mqtt_connected' = (rc = 0)
    /\ lpc' = IF rc = 0 THEN "subscribe" ELSE "idle"
    \* clean_session=True: a new connection starts without subscriptions
    /\ subscribed' = FALSE
    /\ UNCHANGED << mqtt_messages, last_update, mqtt_client, deque_state,
                    clients_created, listeners_started, connect_failed, history,
                    store_vars, render_vars, export_vars >>

\* on_connect, line 43: client.subscribe(MQTT_TOPIC)
on_connect_subscribe ==
    /\ lpc = "subscribe"
    /\ subscribed' = TRUE
    /\ lpc' = "idle"
    /\ UNCHANGED << session_vars, clients_created, listeners_started,
                    connect_failed, history, store_vars, render_vars,
                    export_vars >>

\* on_disconnect, line 49-51
on_disconnect ==
    /\ listener_running
    /\ lpc = "idle"
    /\ mqtt_connected' = FALSE
    /\ subscribed' = FALSE
    /\ UNCHANGED << mqtt_messages, last_update, mqtt_client, deque_state,
                    clients_created, listeners_started, connect_failed, lpc,
                    history, store_vars, render_vars, export_vars >>

\* on_message, line 53-69: any exception is caught and the message dropped
on_message(p) ==
    /\ listener_running
    /\ lpc = "idle"
    /\ subscribed
    /\ IF reaches_append(p)
       THEN /\ mqtt_messages' = appendleft(mqtt_messages, stamped(p))
            /\ deque_state' = deque_state + 1
            /\ last_update' = last_update + 1
            /\ history' = Append(history, stamped(p))
       ELSE UNCHANGED << mqtt_messages, deque_state, last_update, history >>
    /\ UNCHANGED << mqtt_connected, mqtt_client, clients_created,
                    listeners_started, connect_failed, subscribed, lpc, store_vars, render_vars, export_vars >>

\* setup_mqtt, line 72-88. ok: client.connect() returns instead of raising
setup_mqtt(ok) ==
    IF mqtt_client = 0
    THEN /\ clients_created' = clients_created + 1
         /\ IF ok
            THEN /\ listeners_started' = listeners_started + 1
                 /\ mqtt_client' = clients_created + 1
                 /\ UNCHANGED << mqtt_connected, connect_failed >>
            ELSE /\ mqtt_connected' = FALSE
                 /\ connect_failed' = TRUE
                 /\ UNCHANGED << listeners_started, mqtt_client >>
    ELSE UNCHANGED << mqtt_client, clients_created, listeners_started,
                      mqtt_connected, connect_failed >>

(***************************************************************************)
(* Attendance.csv. A field is the sequence of its characters; a data row   *)
(* is << Name, Time, Date >>; the header row is not part of rows. A field  *)
(* a short row lacks reads like an empty one.                              *)
(***************************************************************************)
NameFields == { << >>, << " " >>, << "a" >>, << " ", "A" >>, << "7" >> }
TimeFields == { << >>, << "t" >>, << "7" >> }
DateFields == { << >>, << "d" >>, << "e", " " >> }
Rows == NameFields \X TimeFields \X DateFields

NoFile == [exists |-> FALSE, rows |-> << >>]
FileOf(rows) == [exists |-> TRUE, rows |-> rows]

RECURSIVE SeqsUpTo(_, _)
\* the sequences over S of length at most n
SeqsUpTo(S, n) ==
    IF n = 0 THEN { << >> }
    ELSE LET shorter == SeqsUpTo(S, n - 1)
         IN  shorter \cup { Append(s, x) : s \in { t \in shorter : Len(t) = n - 1 }, x \in S }

Files == { NoFile } \cup { FileOf(r) : r \in SeqsUpTo(Rows, MaxRows) }

\* rows the attendance system appends while the dashboard runs
LiveRows == { << << "a" >>, << "t" >>, << "d" >> >>, << << " " >>, << "t" >>, << "d" >> >> }

Whitespace == { " " }
Digits == { "7" }

RECURSIVE lstrip(_)
lstrip(f) == IF f # << >> /\ Head(f) \in Whitespace THEN lstrip(Tail(f)) ELSE f

RECURSIVE rstrip(_)
rstrip(f) ==
    IF f # << >> /\ f[Len(f)] \in Whitespace THEN rstrip(SubSeq(f, 1, Len(f) - 1)) ELSE f

\* str.strip()
strip(f) == rstrip(lstrip(f))

\* read_csv turns an empty field into NaN; a field of blanks stays a string
is_na(f) == f = << >>

\* read_csv's number parser skips the blanks around the digits
is_numeric(f) == strip(f) # << >> /\ \A i \in 1..Len(strip(f)) : strip(f)[i] \in Digits

\* line 103: pd.read_csv(csv_file, names=[...], skiprows=1). A column whose
\* fields are all numbers or NaN gets a numeric dtype, any other column
\* keeps its strings.
read_csv(rows) ==
    [ cells |-> [i \in 1..Len(rows) |->
                    [c \in 1..3 |-> [na |-> is_na(rows[i][c]), s |-> rows[i][c]]]],
      string_column |-> [c \in 1..3 |->
                    \/ rows = << >>
                    \/ \E i \in 1..Len(rows) :
                          ~is_na(rows[i][c]) /\ ~is_numeric(rows[i][c])] ]

\* line 104: df.dropna()
dropna(frame) ==
    [ frame EXCEPT !.cells =
        SelectRows(frame.cells,
                   [i \in 1..Len(frame.cells) |->
                       \A c \in 1..3 : ~frame.cells[i][c].na]) ]

\* line 107-109: .str exists only on a column of strings (AttributeError)
str_accessor_raises(frame) == \E c \in 1..3 : ~frame.string_column[c]

Record(n, t, d) == [Name |-> n, Time |-> t, Date |-> d]

\* line 107-111: every column trimmed
stripped_records(frame) ==
    [i \in 1..Len(frame.cells) |->
        Record(strip(frame.cells[i][1].s), strip(frame.cells[i][2].s),
               strip(frame.cells[i][3].s))]

\* load_attendance_csv, line 92-114, without the cache: the records it
\* returns and the file it leaves behind
load_attendance_csv(f) ==
    IF ~f.exists
    THEN [df |-> << >>, file |-> FileOf(<< >>), error |-> FALSE]
    ELSE LET frame == dropna(read_csv(f.rows))
         IN  IF str_accessor_raises(frame)
             THEN [df |-> << >>, file |-> f, error |-> TRUE]
             ELSE [df |-> stripped_records(frame), file |-> f, error |-> FALSE]

(***************************************************************************)
(* The history tab, line 202-242.                                          *)
(***************************************************************************)
lower(c) == IF c = "A" THEN "a" ELSE c
lower_field(f) == [i \in 1..Len(f) |-> lower(f[i])]

\* Series.str.contains(pat, case=False), for a pattern of plain characters
contains(f, pat) ==
    \E i \in 1..(Len(f) - Len(pat) + 1) :
        SubSeq(lower_field(f), i, i + Len(pat) - 1) = lower_field(pat)

SearchNames == { << >>, << "a" >> }

AllDates == [all |-> TRUE, date |-> << >>]
OneDate(d) == [all |-> FALSE, date |-> d]

\* line 210-211: "Semua" and the dates of the loaded records
date_choices(d) == { AllDates } \cup { OneDate(d[i].Date) : i \in 1..Len(d) }

\* line 214-220
apply_filters(d, search_name, selected_date) ==
    LET by_name == IF search_name # << >>
                   THEN SelectRows(d, [i \in 1..Len(d) |-> contains(d[i].Name, search_name)])
                   ELSE d
    IN  IF ~selected_date.all
        THEN SelectRows(by_name, [i \in 1..Len(by_name) |-> by_name[i].Date = selected_date.date])
        ELSE by_name

\* line 235: filtered_df.to_csv(index=False): the header, then a row per
\* record with its fields as they are
to_csv(d) == FileOf([i \in 1..Len(d) |-> << d[i].Name, d[i].Time, d[i].Date >>])

(***************************************************************************)
(* st.cache_data(ttl=5) around load_attendance_csv, line 91.               *)
(***************************************************************************)
NoCache == [valid |-> FALSE, value |-> << >>, age |-> 0]

\* a faulty variant: an entry never expires
cache_hit_forever(c) == c.valid

\* an entry answers calls until ttl seconds after it was stored
cache_hit(c) == c.valid /\ c.age < ttl

\* the entry after another d seconds
aged(c, d) == IF c.valid THEN [c EXCEPT !.age = Min(@ + d, ttl)] ELSE c

(***************************************************************************)
(* The render context: one run of the script per render cycle.             *)
(*   rpc  "setup"    line 119      setup_mqtt()                            *)
(*        "sidebar"  line 126-153  status, refresh button                  *)
(*        "load"     line 159      df = load_attendance_csv()              *)
(*        "history"  line 199-244  filters and export                      *)
(*        "live"     line 247-253  the Live MQTT tab                       *)
(*        "iter"     line 254-268  the loop over the deque                 *)
(*        "end"      line 332      the auto-refresh test                   *)
(*        "sleep"    line 333-334  time.sleep(refresh_interval); rerun     *)
(*        "wait"     the run is over; a widget starts the next one         *)
(***************************************************************************)
NoIter == [index |-> 0, counter |-> 0, state |-> 0]
NoReload == [done |-> FALSE, df |-> << >>]

\* the slider of line 143
RefreshIntervals == 1..10

\* line 119
run_setup ==
    /\ rpc = "setup"
    /\ mqtt_client # 0 \/ clients_created < MaxAttempts
    /\ \E ok \in BOOLEAN : setup_mqtt(ok)
    /\ rpc' = "sidebar"
    /\ render_error' = "none"
    /\ UNCHANGED << mqtt_messages, last_update, deque_state, subscribed, lpc,
                    history, store_vars, button, auto_refresh, df, it,
                    shown, snapshot, export_vars >>

\* line 148-150: the button clears the cache and reruns the script
run_sidebar ==
    /\ rpc = "sidebar"
    /\ IF button
       THEN /\ cache' = NoCache
            /\ refresh_pending' = TRUE
            /\ button' = FALSE
            /\ rpc' = "setup"
       ELSE /\ rpc' = "load"
            /\ UNCHANGED << cache, refresh_pending, button >>
    /\ UNCHANGED << session_vars, client_vars, file, load_kind, load_age,
                    auto_refresh, df, it, shown, snapshot, render_error,
                    export_vars >>

\* line 159, through the cache
run_load ==
    /\ rpc = "load"
    /\ load_age' = IF cache.valid THEN cache.age ELSE -1
    /\ IF cache_hit(cache)
       THEN /\ df' = cache.value
            /\ load_kind' = "hit"
            /\ UNCHANGED << file, cache >>
       ELSE LET r == load_attendance_csv(file)
            IN  /\ df' = r.df
                /\ file' = r.file
                /\ cache' = [valid |-> TRUE, value |-> r.df, age |-> 0]
                /\ load_kind' = "read"
    /\ refresh_pending' = FALSE
    /\ rpc' = "history"
    /\ UNCHANGED << session_vars, client_vars, button, auto_refresh, it,
                    shown, snapshot, render_error, export_vars >>

\* line 199-244
run_history(search_name, selected_date) ==
    /\ rpc = "history"
    /\ IF Len(df) > 0
       THEN /\ selected_date \in date_choices(df)
            /\ filtered_df' = apply_filters(df, search_name, selected_date)
            /\ csv_data' = to_csv(apply_filters(df, search_name, selected_date))
       ELSE /\ search_name = << >>
            /\ selected_date = AllDates
            /\ UNCHANGED << filtered_df, csv_data >>
    /\ rpc' = "live"
    /\ UNCHANGED << session_vars, client_vars, store_vars, button,
                    auto_refresh, df, it, shown, snapshot, render_error, reloaded >>

\* line 247-254: the loop starts when connected and the deque is not empty
run_live ==
    /\ rpc = "live"
    /\ IF mqtt_connected /\ Len(mqtt_messages) > 0
       THEN /\ it' = deque_iter(mqtt_messages, deque_state)
            /\ snapshot' = mqtt_messages
            /\ rpc' = "iter"
       ELSE /\ rpc' = "end"
            /\ UNCHANGED << it, snapshot >>
    /\ UNCHANGED << session_vars, client_vars, store_vars, button,
                    auto_refresh, df, shown, render_error, export_vars >>

\* an uncaught exception ends the run: the script's locals are gone and the
\* page waits for the user
run_raises(exception) ==
    /\ render_error' = exception
    /\ rpc' = "wait"
    /\ it' = NoIter
    /\ shown' = << >>
    /\ snapshot' = << >>
    /\ df' = << >>
    /\ filtered_df' = << >>
    /\ csv_data' = NoFile
    /\ load_kind' = "none"
    /\ load_age' = -1
    /\ UNCHANGED << reloaded, file, cache, refresh_pending >>

\* line 254-268: one turn of the loop
run_iter ==
    /\ rpc = "iter"
    /\ LET r == deque_next(it, mqtt_messages, deque_state)
       IN  IF r.raise # "none"
           THEN run_raises(r.raise)
           ELSE IF r.stop
           THEN /\ rpc' = "end"
                /\ it' = NoIter
                /\ UNCHANGED << shown, snapshot, render_error, df, export_vars,
                                store_vars >>
           ELSE IF get_raises(mqtt_messages[r.index])
           THEN run_raises("AttributeError")
           ELSE /\ shown' = Append(shown, mqtt_messages[r.index])
                /\ it' = [it EXCEPT !.index = @ + 1, !.counter = @ - 1]
                /\ UNCHANGED << rpc, snapshot, render_error, df, export_vars,
                                store_vars >>
    /\ UNCHANGED << session_vars, client_vars, button, auto_refresh >>

\* line 332
run_end ==
    /\ rpc = "end"
    /\ rpc' = IF auto_refresh THEN "sleep" ELSE "wait"
    \* the script's locals do not outlive the run
    /\ df' = << >>
    /\ shown' = << >>
    /\ snapshot' = << >>
    /\ filtered_df' = << >>
    /\ csv_data' = NoFile
    /\ load_kind' = "none"
    /\ load_age' = -1
    /\ UNCHANGED << session_vars, client_vars, file, cache, refresh_pending,
                    button, auto_refresh, it, render_error, reloaded >>

\* line 333-334
run_sleep(interval) ==
    /\ rpc = "sleep"
    /\ cache' = aged(cache, interval)
    /\ rpc' = "setup"
    /\ UNCHANGED << session_vars, client_vars, file, load_kind, load_age,
                    refresh_pending, button, auto_refresh, df, it, shown,
                    snapshot, render_error, export_vars >>

\* the user presses the refresh button: the script runs with st.button True
user_click ==
    /\ rpc \in {"sleep", "wait"}
    /\ button' = TRUE
    /\ rpc' = "setup"
    /\ UNCHANGED << session_vars, client_vars, store_vars, auto_refresh,
                    df, it, shown, snapshot, render_error, export_vars >>

\* the user flips the auto-refresh checkbox: the script runs again
user_toggle ==
    /\ rpc \in {"sleep", "wait"}
    /\ auto_refresh' = ~auto_refresh
    /\ rpc' = "setup"
    /\ UNCHANGED << session_vars, client_vars, store_vars, button, df, it,
                    shown, snapshot, render_error, export_vars >>

(***************************************************************************)
(* The environment: the clock and the writer of Attendance.csv.            *)
(***************************************************************************)
\* a second passes
tick ==
    /\ cache' = aged(cache, 1)
    /\ UNCHANGED << session_vars, client_vars, file, load_kind, load_age,
                    refresh_pending, render_vars, export_vars >>

append_row(row) ==
    /\ Len(file.rows) < MaxLiveRows
    /\ file' = FileOf(Append(file.rows, row))
    /\ UNCHANGED << session_vars, client_vars, cache, load_kind, load_age,
                    refresh_pending, render_vars, export_vars >>

\* the exported file is loaded by the same routine
reload_export ==
    /\ csv_data.exists
    /\ ~reloaded.done
    /\ reloaded' = [done |-> TRUE, df |-> load_attendance_csv(csv_data).df]
    /\ UNCHANGED << session_vars, client_vars, store_vars, render_vars,
                    filtered_df, csv_data >>

(***************************************************************************)
(* The full model: session state as lines 27-37 leave it, the first run    *)
(* of the script about to start.                                           *)
(***************************************************************************)
InitSession ==
    /\ mqtt_connected = FALSE
    /\ mqtt_messages = << >>
    /\ last_update = 0
    /\ mqtt_client = 0
    /\ deque_state = 0
    /\ clients_created = 0
    /\ listeners_started = 0
    /\ connect_failed = FALSE
    /\ subscribed = FALSE
    /\ lpc = "idle"
    /\ history = << >>
    /\ cache = NoCache
    /\ load_kind = "none"
    /\ load_age = -1
    /\ refresh_pending = FALSE
    /\ button = FALSE
    /\ auto_refresh = TRUE
    /\ df = << >>
    /\ it = NoIter
    /\ shown = << >>
    /\ snapshot = << >>
    /\ render_error = "none"
    /\ filtered_df = << >>
    /\ csv_data = NoFile
    /\ reloaded = NoReload

Init ==
    /\ InitSession
    /\ file \in { NoFile, FileOf(<< >>) }
    /\ rpc = "setup"

LivePayloads ==
    { Payload("object", FALSE, "a"),
      Payload("bad_json", FALSE, "-"), Payload("number", FALSE, "-"),
      Payload("array", FALSE, "-"), Payload("array", TRUE, "-") }

Next ==
    \/ run_setup
    \/ run_sidebar
    \/ run_load
    \/ \E s \in SearchNames, d \in date_choices(df) : run_history(s, d)
    \/ run_live
    \/ run_iter
    \/ run_end
    \/ \E i \in RefreshIntervals : run_sleep(i)
    \/ user_click
    \/ user_toggle
    \/ tick
    \/ \E r \in LiveRows : append_row(r)
    \/ \E rc \in {0, 5} : on_connect(rc)
    \/ on_connect_subscribe
    \/ on_disconnect
    \/ \E p \in LivePayloads : Len(history) < MaxLiveMsgs /\ on_message(p)

Spec == Init /\ [][Next]_vars

(***************************************************************************)
(* The buffer model: the listener alone, from the state the full model is  *)
(* in once the first run has connected, subscribed, loaded an empty file   *)
(* and gone to sleep. Long runs of on_message fill the deque past maxlen.  *)
(***************************************************************************)
Connected ==
    /\ mqtt_connected = TRUE
    /\ mqtt_messages = << >>
    /\ last_update = 0
    /\ mqtt_client = 1
    /\ deque_state = 0
    /\ clients_created = 1
    /\ listeners_started = 1
    /\ connect_failed = FALSE
    /\ subscribed = TRUE
    /\ lpc = "idle"
    /\ history = << >>
    /\ file = FileOf(<< >>)
    /\ cache = [valid |-> TRUE, value |-> << >>, age |-> 0]
    /\ load_kind = "none"
    /\ load_age = -1
    /\ refresh_pending = FALSE
    /\ rpc = "sleep"
    /\ button = FALSE
    /\ auto_refresh = TRUE
    /\ df = << >>
    /\ it = NoIter
    /\ shown = << >>
    /\ snapshot = << >>
    /\ render_error = "none"
    /\ filtered_df = << >>
    /\ csv_data = NoFile
    /\ reloaded = NoReload

InitBuf == Connected

\* how many of the pushed values are not the default one
variants == Cardinality({ i \in 1..Len(history) : history[i] # stamped(DefaultPayload) })

NextBuf ==
    \E p \in BufPayloads :
        /\ Len(history) < MaxMsgs
        /\ p # DefaultPayload => variants < MaxVariants
        /\ on_message(p)

SpecBuf == InitBuf /\ [][NextBuf]_vars

(***************************************************************************)
(* The loader model: one run of the script over every file of at most      *)
(* MaxRows rows, every filter setting, and the exported file loaded again. *)
(***************************************************************************)
InitCsv ==
    /\ InitSession
    /\ file \in Files
    /\ rpc = "setup"

NextCsv ==
    \/ run_setup
    \/ run_sidebar
    \/ run_load
    \/ \E s \in SearchNames, d \in date_choices(df) : run_history(s, d)
    \/ reload_export

SpecCsv == InitCsv /\ [][NextCsv]_vars

(***************************************************************************)
(* The claims.                                                             *)
(***************************************************************************)

\* C1: after any sequence of messages that on_message has pushed, the deque
\* holds exactly the last min(n, 50) of them, newest first: never more than
\* 50, the oldest evicted by a push onto a full deque, duplicates kept.
C1_BufferHoldsLastFifty ==
    /\ Len(mqtt_messages) <= maxlen
    /\ Len(mqtt_messages) = Min(Len(history), maxlen)
    /\ mqtt_messages = Reverse(LastN(history, Min(Len(history), maxlen)))

\* C1's case: 51 pushes, the first one (unlike its successor) evicted, the
\* second one now the oldest, and two equal values side by side
C1_Witness ==
    /\ Len(history) = maxlen + 1
    /\ history[1] # history[2]
    /\ mqtt_messages[maxlen] = history[2]
    /\ mqtt_messages[1] = mqtt_messages[2]
    /\ \A i \in 1..maxlen : mqtt_messages[i] # history[1]

\* C2: a payload that is not valid UTF-8/JSON, or is JSON but no key/value
\* object, is dropped: on_message leaves the deque and last_update as they
\* were.
C2_UndecodableIsDropped ==
    [][ \A p \in Malformed \cup NonObjects :
            on_message(p) => UNCHANGED << mqtt_messages, last_update >> ]_vars

\* C3: the connection state starts Disconnected; it becomes Connected only
\* by on_connect with result code 0; on_connect with another result code, a
\* failed setup and on_disconnect leave it Disconnected; nothing else
\* changes it.
C3_ConnectionStateTransitions ==
    /\ ~mqtt_connected
    /\ [][ /\ (~mqtt_connected /\ mqtt_connected') => on_connect(0)
           /\ (mqtt_connected /\ ~mqtt_connected') =>
                 \/ on_disconnect
                 \/ \E rc \in {5} : on_connect(rc)
                 \/ (run_setup /\ connect_failed')
           /\ on_disconnect => ~mqtt_connected'
           /\ (\E rc \in {5} : on_connect(rc)) => ~mqtt_connected'
           /\ (run_setup /\ clients_created' # clients_created /\ mqtt_client' = 0)
                 => ~mqtt_connected' ]_vars

\* C3's case: a setup that failed, a later one that succeeded, and the
\* handshake accepted since
C3_Witness == connect_failed /\ mqtt_client # 0 /\ mqtt_connected /\ subscribed

\* C4: a push by the listener during the render's loop over the deque never
\* makes the loop fail.
C4_IterationSurvivesPush == render_error # "RuntimeError"

\* C5: once a connect attempt of setup_mqtt has failed, no later render
\* cycle makes another attempt and the state stays Disconnected.
C5_NoRetryAfterFailure ==
    [][ connect_failed =>
            /\ clients_created' = clients_created
            /\ ~mqtt_connected' ]_vars

\* C6: setup_mqtt changes nothing when a client is stored, and no session
\* ever creates more than one client or starts more than one listener.
C6_SetupIdempotent ==
    [][ /\ (run_setup /\ mqtt_client # 0) =>
              UNCHANGED << session_vars, clients_created, listeners_started,
                           subscribed, lpc >>
        /\ clients_created' <= 1
        /\ listeners_started' <= 1 ]_vars

\* C7: load_attendance_csv answers from the cache, without reading the
\* file, when the entry is less than 5 seconds old; it reads the file when
\* the entry is 5 seconds old or older; and the load that follows the
\* refresh button always reads the file.
C7_CacheTtlAndRefresh ==
    [][ run_load =>
          /\ (cache.valid /\ cache.age < 5) =>
                /\ load_kind' = "hit"
                /\ df' = cache.value
                /\ UNCHANGED file
          /\ (cache.valid /\ cache.age >= 5) =>
                /\ load_kind' = "read"
                /\ df' = load_attendance_csv(file).df
          /\ refresh_pending =>
                /\ load_kind' = "read"
                /\ df' = load_attendance_csv(file).df ]_vars

\* C7's case: a call that found the entry expired and read a file whose
\* content had changed since
C7_Witness ==
    /\ rpc = "history"
    /\ load_kind = "read"
    /\ load_age >= 5
    /\ Len(df) > 0

\* the rows without a blank field, trimmed, in file order
RECURSIVE trimmed_nonblank(_)
trimmed_nonblank(rows) ==
    IF rows = << >> THEN << >>
    ELSE LET r == Head(rows)
         IN  IF \E c \in 1..3 : strip(r[c]) = << >>
             THEN trimmed_nonblank(Tail(rows))
             ELSE << Record(strip(r[1]), strip(r[2]), strip(r[3])) >>
                      \o trimmed_nonblank(Tail(rows))

\* C8: a load yields exactly the rows that have no blank field (missing,
\* empty or only whitespace), in file order, every field trimmed.
C8_LoadDropsBlankRows ==
    (rpc = "history" /\ load_kind = "read") => df = trimmed_nonblank(file.rows)

\* C9: the exported file, loaded by load_attendance_csv, gives back the
\* records of the filtered view.
C9_ExportRoundTrips == reloaded.done => reloaded.df = filtered_df

\* C10: whenever the state is Connected, the subscription to the topic has
\* been issued on the current connection.
C10_ConnectedImpliesSubscribed == mqtt_connected => subscribed

====
